---- MODULE Spec2Model ----
(***************************************************************************)
(* Model of the remote resource control layer of databricks-mcp-server:    *)
(*   - upload_large_file  (src/src/api/dbfs.py)  chunked upload engine     *)
(*   - execute_and_wait   (src/src/api/sql.py)   statement execution       *)
(* Each remote call goes through make_api_request (src/src/core/utils.py), *)
(* which either returns the decoded body or raises DatabricksAPIError.     *)
(***************************************************************************)
EXTENDS Integers, Sequences, FiniteSets, TLC

(***************************************************************************)
(* Bounds                                                                  *)
(***************************************************************************)
MaxFileLen == 3
MaxChunk == 2
MaxTimeout == 3
MaxInterval == 2
MaxLatency == 1
MaxInvocations == 2
MaxRunning == 2
MaxBlocks == 2
MaxContent == 4

\* byte values the local file is built from
ByteSamples == {0, 77, 255}

\* the pad character '=' of the base64 alphabet (indices 0..63 are the
\* 64 alphabet characters)
Pad == 64

None == "None"

VARIABLES
    \* ---- upload_large_file: inputs
    fileState,      \* "missing" | "unreadable" | "ok"  (os.path.exists / open)
    fileBytes,      \* content of the local file
    buffer_size,    \* chunk size argument
    \* ---- upload_large_file: locals
    upc,            \* position in upload_large_file
    handle,         \* create_response.get("handle")
    fpos,           \* read position of f
    chunk,          \* last value of f.read(buffer_size)
    chunk_index,
    uexc,           \* exception bound to e in the except clause
    uresult,        \* how the call ended
    \* ---- transport calls issued by the upload, in order
    ucalls,
    \* ---- remote side of the upload
    rHandle,        \* "none" | "open" | "closed"
    rBlocks,        \* bytes appended to the handle so far
    rCommitted,     \* TRUE once the destination object exists
    rObject         \* content of the destination object

VARIABLES
    \* ---- execute_and_wait: inputs
    timeout_seconds,
    poll_interval_seconds,
    \* ---- execute_and_wait: locals
    spc,            \* position in execute_and_wait
    response,       \* response of execute_statement
    statement_id,
    start_time,
    status,
    status_response,
    sresult,        \* how the call ended
    \* ---- environment of the statement execution
    now,            \* time.time()
    remoteMode,     \* "any" | "running": what the remote side may report
    \* ---- observations
    submit_time,    \* time.time() when execute_statement was called
    elapsed,        \* last value of time.time() - start_time compared
    responses,      \* every response received, in order
    scalls          \* transport calls issued by the execution, in order

VARIABLES
    \* ---- make_api_request: arguments and configuration
    m_data,         \* data argument
    m_files,        \* files argument
    m_token,        \* settings.DATABRICKS_TOKEN
    \* ---- make_api_request: locals
    mpc,            \* position in make_api_request
    m_json_data,
    m_log,          \* entries written by logger.debug for this call
    m_response,     \* response of requests.request
    m_exc,          \* exception bound to e in the except clause
    mresult,        \* how the call ended
    \* ---- observations
    m_request,      \* the request handed to requests.request
    httpSent,       \* number of HTTP requests issued so far
    mInvocations,   \* number of make_api_request calls started so far
    \* ---- coroutines on one event loop
    task,           \* per coroutine: its arguments, position and locals
    running,        \* the coroutine that holds the loop's thread, or NoTask
    clock,          \* time.time()
    netLatency,     \* time a remote call takes to answer
    wire,           \* requests and responses in the order they crossed the wire
    issued,         \* last handle / statement identifier the remote side issued
    \* ---- a tool call of DatabricksMCPServer
    t_name,         \* the tool called
    t_params,       \* "required": only the required parameters, "all": every one
    t_format,       \* params.get("format", "SOURCE") of export_notebook
    t_pc,           \* position in the tool function
    t_remote,       \* the payload the remote side answered
    t_result,       \* result
    t_exc,          \* the exception the except clause caught
    t_return,       \* the list the tool function returns
    t_calls,        \* remote calls issued
    \* ---- import_notebook
    n_content,      \* the content argument
    n_pc,           \* position in import_notebook
    n_sent          \* the local content, which becomes import_data["content"]

mvars == <<m_data, m_files, m_token, mpc, m_json_data, m_log,
           m_response, m_exc, mresult, m_request, httpSent, mInvocations>>

svars == <<timeout_seconds, poll_interval_seconds, spc, response, statement_id,
           start_time, status, status_response, sresult, now, remoteMode,
           submit_time, elapsed, responses, scalls>>

uvars == <<fileState, fileBytes, buffer_size, upc, handle, fpos, chunk,
           chunk_index, uexc, uresult, ucalls, rHandle, rBlocks, rCommitted,
           rObject>>

lvars == <<task, running, clock, netLatency, wire, issued>>

tvars == <<t_name, t_params, t_format, t_pc, t_remote, t_result, t_exc,
           t_return, t_calls>>

nvars == <<n_content, n_pc, n_sent>>

vars == <<uvars, svars, mvars, lvars, tvars, nvars>>

(***************************************************************************)
(* Pure helpers                                                            *)
(***************************************************************************)
Min(a, b) == IF a < b THEN a ELSE b

SeqsUpTo(S, n) == UNION {[1..k -> S] : k \in 0..n}

\* base64.b64encode of at most three bytes (one group of the encoding)
B64Group(g) ==
    LET b1 == g[1]
        b2 == IF Len(g) >= 2 THEN g[2] ELSE 0
        b3 == IF Len(g) >= 3 THEN g[3] ELSE 0
        n  == b1 * 65536 + b2 * 256 + b3
        c1 == n \div 262144
        c2 == (n \div 4096) % 64
        c3 == (n \div 64) % 64
        c4 == n % 64
    IN  CASE Len(g) = 1 -> <<c1, c2, Pad, Pad>>
          [] Len(g) = 2 -> <<c1, c2, c3, Pad>>
          [] OTHER      -> <<c1, c2, c3, c4>>

RECURSIVE B64Encode(_)
B64Encode(bytes) ==
    IF Len(bytes) = 0 THEN <<>>
    ELSE IF Len(bytes) <= 3 THEN B64Group(bytes)
    ELSE B64Group(SubSeq(bytes, 1, 3)) \o B64Encode(SubSeq(bytes, 4, Len(bytes)))

\* what the remote side does with the "data" field of an add-block call
B64UnGroup(q) ==
    LET v(i) == IF q[i] = Pad THEN 0 ELSE q[i]
        n  == v(1) * 262144 + v(2) * 4096 + v(3) * 64 + v(4)
        b1 == n \div 65536
        b2 == (n \div 256) % 256
        b3 == n % 256
    IN  CASE q[3] = Pad -> <<b1>>
          [] q[4] = Pad -> <<b1, b2>>
          [] OTHER      -> <<b1, b2, b3>>

RECURSIVE B64Decode(_)
B64Decode(chars) ==
    IF Len(chars) < 4 THEN <<>>
    ELSE B64UnGroup(SubSeq(chars, 1, 4)) \o B64Decode(SubSeq(chars, 5, Len(chars)))

\* an off-by-one read: one byte more than asked for
ReadChunkOver(bytes, pos, n) == SubSeq(bytes, pos + 1, Min(pos + n + 1, Len(bytes)))

\* f.read(buffer_size) on a buffered binary file positioned at pos
ReadChunk(bytes, pos, n) == SubSeq(bytes, pos + 1, Min(pos + n, Len(bytes)))

(***************************************************************************)
(* upload_large_file                                                       *)
(***************************************************************************)
FileStates == {"missing", "unreadable", "ok"}

\* outcome of one make_api_request call as seen from both sides:
\*   "ok"       2xx, the remote side applied the request
\*   "rejected" the request was not applied, DatabricksAPIError raised
\*   "lost"     the remote side applied the request but no response was
\*              reached, DatabricksAPIError raised
Outcomes == {"ok", "rejected", "lost"}

Applied(o) == o \in {"ok", "lost"}

\* the handle the remote side issues for this upload
IssuedHandle == "h1"

\* outcomes the remote side can produce for a call on endpoint ep carrying
\* handle h: a block or a close is only accepted on the open handle
RemoteOutcomes(ep, h) ==
    IF ep = "create" THEN Outcomes
    ELSE IF rHandle = "open" /\ h = IssuedHandle THEN Outcomes
    ELSE {"rejected"}

UCall(ep, h, d, o) == [ep |-> ep, handle |-> h, data |-> d, outcome |-> o]

\* the DatabricksAPIError raised by the k-th transport call
ApiError(k) == [type |-> "DatabricksAPIError", call |-> k]

LocalError(t) == [type |-> t, call |-> 0]

NoExc == LocalError("None")

NoResult == [kind |-> "none"]
Returned(v) == [kind |-> "return", val |-> v]
Raised(e) == [kind |-> "raise", val |-> e]

\* a handler that lets the error of the best-effort close replace e
ReraiseCloseError(e, closeErr) == IF closeErr.type = "None" THEN e ELSE closeErr

\* the bare raise that ends the except clause re-raises e; the error of the
\* best-effort close (closeErr) was swallowed by the inner except
Reraise(e, closeErr) == e

UInit ==
    /\ fileState \in FileStates
    /\ fileBytes \in SeqsUpTo(ByteSamples, MaxFileLen)
    /\ (fileState = "missing" => fileBytes = <<>>)
    /\ buffer_size \in 1..MaxChunk
    /\ upc = "start"
    /\ handle = None
    /\ fpos = 0
    /\ chunk = <<>>
    /\ chunk_index = 0
    /\ uexc = NoExc
    /\ uresult = NoResult
    /\ ucalls = <<>>
    /\ rHandle = "none"
    /\ rBlocks = <<>>
    /\ rCommitted = FALSE
    /\ rObject = <<>>

\* a check that lets every path through
ExistsAlways(fs) == TRUE

\* line 75: os.path.exists(local_file_path)
Exists(fs) == fs # "missing"

\* lines 75-76: the local precondition
UCheckExists ==
    /\ upc = "start"
    /\ IF ~Exists(fileState)
       THEN /\ upc' = "done"
            /\ uresult' = Raised(LocalError("FileNotFoundError"))
       ELSE /\ upc' = "create"
            /\ UNCHANGED uresult
    /\ UNCHANGED <<fileState, fileBytes, buffer_size, handle, fpos, chunk,
                   chunk_index, uexc, ucalls, rHandle, rBlocks, rCommitted, rObject>>
    /\ UNCHANGED <<svars, mvars, lvars, tvars, nvars>>

\* the create call moved inside the try block
UCreateInTry ==
    /\ upc = "create"
    /\ \E o \in RemoteOutcomes("create", None) :
        /\ ucalls' = Append(ucalls, UCall("create", None, <<>>, o))
        /\ rHandle' = IF Applied(o) THEN "open" ELSE rHandle
        /\ IF o = "ok"
           THEN /\ handle' = IssuedHandle
                /\ upc' = "open_file"
                /\ UNCHANGED uexc
           ELSE /\ upc' = "abort_close"
                /\ uexc' = ApiError(Len(ucalls) + 1)
                /\ UNCHANGED handle
    /\ UNCHANGED <<fileState, fileBytes, buffer_size, fpos, chunk,
                   chunk_index, uresult, rBlocks, rCommitted, rObject>>
    /\ UNCHANGED <<svars, mvars, lvars, tvars, nvars>>

\* lines 79-88: open the handle; an error here is outside the try block
UCreate ==
    /\ upc = "create"
    /\ \E o \in RemoteOutcomes("create", None) :
        /\ ucalls' = Append(ucalls, UCall("create", None, <<>>, o))
        /\ rHandle' = IF Applied(o) THEN "open" ELSE rHandle
        /\ IF o = "ok"
           THEN /\ handle' = IssuedHandle
                /\ upc' = "open_file"
                /\ UNCHANGED uresult
           ELSE /\ upc' = "done"
                /\ uresult' = Raised(ApiError(Len(ucalls) + 1))
                /\ UNCHANGED handle
    /\ UNCHANGED <<fileState, fileBytes, buffer_size, fpos, chunk,
                   chunk_index, uexc, rBlocks, rCommitted, rObject>>
    /\ UNCHANGED <<svars, mvars, lvars, tvars, nvars>>

\* line 91: open(local_file_path, "rb"), inside the try block
UOpenFile ==
    /\ upc = "open_file"
    /\ IF fileState = "unreadable"
       THEN /\ uexc' = LocalError("PermissionError")
            /\ upc' = "abort_close"
       ELSE /\ upc' = "read"
            /\ UNCHANGED uexc
    /\ fpos' = 0
    /\ chunk_index' = 0
    /\ UNCHANGED <<fileState, fileBytes, buffer_size, handle, chunk,
                   uresult, ucalls, rHandle, rBlocks, rCommitted, rObject>>
    /\ UNCHANGED <<svars, mvars, lvars, tvars, nvars>>

\* lines 94-96: chunk = f.read(buffer_size); if not chunk: break
URead ==
    /\ upc = "read"
    /\ chunk' = ReadChunk(fileBytes, fpos, buffer_size)
    /\ fpos' = fpos + Len(chunk')
    /\ upc' = IF chunk' = <<>> THEN "close" ELSE "add_block"
    /\ UNCHANGED <<fileState, fileBytes, buffer_size, handle, chunk_index,
                   uexc, uresult, ucalls, rHandle, rBlocks, rCommitted, rObject>>
    /\ UNCHANGED <<svars, mvars, lvars, tvars, nvars>>

\* lines 99-112: encode the chunk and append it to the handle
UAddBlock ==
    /\ upc = "add_block"
    /\ \E o \in RemoteOutcomes("add-block", handle) :
        /\ ucalls' = Append(ucalls, UCall("add-block", handle, B64Encode(chunk), o))
        /\ rBlocks' = IF Applied(o) THEN rBlocks \o B64Decode(B64Encode(chunk))
                                    ELSE rBlocks
        /\ IF o = "ok"
           THEN /\ chunk_index' = chunk_index + 1
                /\ upc' = "read"
                /\ UNCHANGED uexc
           ELSE /\ uexc' = ApiError(Len(ucalls) + 1)
                /\ upc' = "abort_close"
                /\ UNCHANGED chunk_index
    /\ UNCHANGED <<fileState, fileBytes, buffer_size, handle, fpos, chunk,
                   uresult, rHandle, rCommitted, rObject>>
    /\ UNCHANGED <<svars, mvars, lvars, tvars, nvars>>

\* lines 115-119: close the handle and return the response of the close
UClose ==
    /\ upc = "close"
    /\ \E o \in RemoteOutcomes("close", handle) :
        /\ ucalls' = Append(ucalls, UCall("close", handle, <<>>, o))
        /\ rHandle' = IF Applied(o) THEN "closed" ELSE rHandle
        /\ rCommitted' = (rCommitted \/ Applied(o))
        /\ rObject' = IF Applied(o) THEN rBlocks ELSE rObject
        /\ IF o = "ok"
           THEN /\ uresult' = Returned(Len(ucalls) + 1)
                /\ upc' = "done"
                /\ UNCHANGED uexc
           ELSE /\ uexc' = ApiError(Len(ucalls) + 1)
                /\ upc' = "abort_close"
                /\ UNCHANGED uresult
    /\ UNCHANGED <<fileState, fileBytes, buffer_size, handle, fpos, chunk,
                   chunk_index, rBlocks>>
    /\ UNCHANGED <<svars, mvars, lvars, tvars, nvars>>

\* an except clause that re-raises without releasing the handle
UAbortNoClose ==
    /\ upc = "abort_close"
    /\ uresult' = Raised(uexc)
    /\ upc' = "done"
    /\ UNCHANGED <<fileState, fileBytes, buffer_size, handle, fpos, chunk,
                   chunk_index, uexc, ucalls, rHandle, rBlocks, rCommitted,
                   rObject>>
    /\ UNCHANGED <<svars, mvars, lvars, tvars, nvars>>

\* lines 121-133: except Exception as e: best-effort close, whose own
\* error is swallowed, then the bare raise
UAbortClose ==
    /\ upc = "abort_close"
    /\ \E o \in RemoteOutcomes("close", handle) :
        /\ ucalls' = Append(ucalls, UCall("close", handle, <<>>, o))
        /\ rHandle' = IF Applied(o) THEN "closed" ELSE rHandle
        /\ rCommitted' = (rCommitted \/ Applied(o))
        /\ rObject' = IF Applied(o) THEN rBlocks ELSE rObject
        /\ uresult' = Raised(Reraise(uexc,
                         IF o = "ok" THEN NoExc ELSE ApiError(Len(ucalls) + 1)))
    /\ upc' = "done"
    /\ UNCHANGED <<fileState, fileBytes, buffer_size, handle, fpos, chunk,
                   chunk_index, uexc, rBlocks>>
    /\ UNCHANGED <<svars, mvars, lvars, tvars, nvars>>

UNext ==
    \/ UCheckExists
    \/ UCreate
    \/ UOpenFile
    \/ URead
    \/ UAddBlock
    \/ UClose
    \/ UAbortClose

(***************************************************************************)
(* execute_and_wait                                                        *)
(***************************************************************************)
\* lifecycle states the remote side may report; "" is a response without a
\* status.state field, "UNKNOWN" any state outside the documented six
SqlStates == {"PENDING", "RUNNING", "SUCCEEDED", "FAILED", "CANCELED",
              "CLOSED", "", "UNKNOWN"}

ActiveStates == {"PENDING", "RUNNING"}

FailureStates == {"FAILED", "CANCELED", "CLOSED"}

\* the status.error field of a response: the key is absent, it is an empty
\* mapping, or it has a message
ErrAbsent == "<absent>"
ErrEmpty == "<empty>"
ErrDetails == {ErrAbsent, ErrEmpty, "syntax error"}

IssuedStatementId == "s1"

Latencies == 0..MaxLatency

\* a decoded response body
Response(n, id, st, err) == [seq |-> n, statement_id |-> id, state |-> st, error |-> err]

NoResponse == Response(0, None, "", ErrAbsent)

\* bodies the remote side can answer the n-th transport call with (an error
\* detail only comes with a terminal failure state)
RemoteBodies(n) ==
    IF remoteMode = "running"
    THEN {Response(n, IssuedStatementId, "RUNNING", ErrAbsent)}
    ELSE {r \in [seq : {n}, statement_id : {IssuedStatementId, None},
                 state : SqlStates, error : ErrDetails] :
            r.state \in FailureStates \/ r.error = ErrAbsent}

\* whether the n-th transport call can fail
RemoteCanFail == remoteMode = "any"

SqlError(t, msg, r) == [type |-> t, message |-> msg, response |-> r]

TransportError == SqlError("DatabricksAPIError", "API request failed", NoResponse)

SCall(ep, id) == [ep |-> ep, id |-> id]

\* a lookup whose default is the empty string
ErrorMessageNoDefault(err) ==
    IF err \in {ErrAbsent, ErrEmpty} THEN "" ELSE err

\* status_response.get("status", {}).get("error", {}).get("message", "Unknown error")
ErrorMessage(err) ==
    IF err \in {ErrAbsent, ErrEmpty} THEN "Unknown error" ELSE err

\* line 129: the message of the error raised for a terminal failure state
FailureMessage(err) == "Query execution failed: " \o ErrorMessage(err)

\* line 110: the instant the timeout is measured from, given the instant
\* execute_statement was called and the instant its response was received
StartTime(submitted, received) == received

\* a timeout test with the comparison the wrong way round
TimedOutReversed(t, start, timeout) == t - start < timeout

\* line 115: the timeout test
TimedOut(t, start, timeout) == t - start > timeout

\* returning the submission response instead of the poll response
SucceededResultStale(resp, status_resp) == resp

\* line 126: the value returned when a poll reports SUCCEEDED
SucceededResult(resp, status_resp) == status_resp

\* line 131: the value returned when the loop ends without a return or raise
FallThroughResult(resp, status_resp) == resp

SInputs ==
    /\ timeout_seconds \in 0..MaxTimeout
    /\ poll_interval_seconds \in 1..MaxInterval
    /\ spc = "start"
    /\ response = NoResponse
    /\ statement_id = None
    /\ start_time = 0
    /\ status = ""
    /\ status_response = NoResponse
    /\ sresult = NoResult
    /\ now = 0
    /\ submit_time = 0
    /\ elapsed = 0
    /\ responses = <<>>
    /\ scalls = <<>>

\* lines 97-103: execute_statement
SSubmit ==
    /\ spc = "start"
    /\ submit_time' = now
    /\ scalls' = Append(scalls, SCall("execute", None))
    /\ \E d \in Latencies :
        /\ now' = now + d
        /\ \/ /\ RemoteCanFail
              /\ sresult' = Raised(TransportError)
              /\ spc' = "done"
              /\ UNCHANGED <<response, responses>>
           \/ \E r \in RemoteBodies(1) :
              /\ response' = r
              /\ responses' = Append(responses, r)
              /\ spc' = "check_id"
              /\ UNCHANGED sresult
    /\ UNCHANGED <<timeout_seconds, poll_interval_seconds, statement_id,
                   start_time, status, status_response, remoteMode, elapsed>>
    /\ UNCHANGED <<uvars, mvars, lvars, tvars, nvars>>

\* an identifier check that accepts anything
MissingIdNever(id) == FALSE

\* line 106: not statement_id
MissingId(id) == id = None

\* lines 105-111: the identifier check, then start_time and the first status
SCheckId ==
    /\ spc = "check_id"
    /\ statement_id' = response.statement_id
    /\ IF MissingId(statement_id')
       THEN /\ sresult' = Raised(SqlError("ValueError",
                              "No statement_id returned from execution", NoResponse))
            /\ spc' = "done"
            /\ UNCHANGED <<start_time, status>>
       ELSE /\ start_time' = StartTime(submit_time, now)
            /\ status' = response.state
            /\ spc' = "loop"
            /\ UNCHANGED sresult
    /\ UNCHANGED <<timeout_seconds, poll_interval_seconds, response,
                   status_response, now, remoteMode, submit_time, elapsed,
                   responses, scalls>>
    /\ UNCHANGED <<uvars, mvars, lvars, tvars, nvars>>

\* line 113: the loop condition, and line 131 when it is false
SLoopTest ==
    /\ spc = "loop"
    /\ IF status \in ActiveStates
       THEN /\ spc' = "timeout_check"
            /\ UNCHANGED sresult
       ELSE /\ sresult' = Returned(FallThroughResult(response, status_response))
            /\ spc' = "done"
    /\ UNCHANGED <<timeout_seconds, poll_interval_seconds, response,
                   statement_id, start_time, status, status_response, now,
                   remoteMode, submit_time, elapsed, responses, scalls>>
    /\ UNCHANGED <<uvars, mvars, lvars, tvars, nvars>>

\* a timeout check that cancels the remote statement before raising
STimeoutCheckCancel ==
    /\ spc = "timeout_check"
    /\ elapsed' = now - start_time
    /\ IF TimedOut(now, start_time, timeout_seconds)
       THEN /\ sresult' = Raised(SqlError("TimeoutError",
                              "Query execution timed out", NoResponse))
            /\ scalls' = Append(scalls, SCall("cancel", statement_id))
            /\ spc' = "done"
       ELSE /\ spc' = "sleep"
            /\ UNCHANGED <<sresult, scalls>>
    /\ UNCHANGED <<timeout_seconds, poll_interval_seconds, response,
                   statement_id, start_time, status, status_response, now,
                   remoteMode, submit_time, responses>>
    /\ UNCHANGED <<uvars, mvars, lvars, tvars, nvars>>

\* lines 115-116: the timeout check that precedes every poll
STimeoutCheck ==
    /\ spc = "timeout_check"
    /\ elapsed' = now - start_time
    /\ IF TimedOut(now, start_time, timeout_seconds)
       THEN /\ sresult' = Raised(SqlError("TimeoutError",
                              "Query execution timed out", NoResponse))
            /\ spc' = "done"
       ELSE /\ spc' = "sleep"
            /\ UNCHANGED sresult
    /\ UNCHANGED <<timeout_seconds, poll_interval_seconds, response,
                   statement_id, start_time, status, status_response, now,
                   remoteMode, submit_time, responses, scalls>>
    /\ UNCHANGED <<uvars, mvars, lvars, tvars, nvars>>

\* a loop that polls again at once
SSleepSkipped ==
    /\ spc = "sleep"
    /\ spc' = "poll"
    /\ UNCHANGED <<timeout_seconds, poll_interval_seconds, response,
                   statement_id, start_time, status, status_response, sresult,
                   now, remoteMode, submit_time, elapsed, responses, scalls>>
    /\ UNCHANGED <<uvars, mvars, lvars, tvars, nvars>>

\* line 119: await asyncio.sleep(poll_interval_seconds)
SSleep ==
    /\ spc = "sleep"
    /\ now' = now + poll_interval_seconds
    /\ spc' = "poll"
    /\ UNCHANGED <<timeout_seconds, poll_interval_seconds, response,
                   statement_id, start_time, status, status_response, sresult,
                   remoteMode, submit_time, elapsed, responses, scalls>>
    /\ UNCHANGED <<uvars, mvars, lvars, tvars, nvars>>

\* lines 122-123: get_statement_status and the state it reports
SPoll ==
    /\ spc = "poll"
    /\ scalls' = Append(scalls, SCall("status", statement_id))
    /\ \E d \in Latencies :
        /\ now' = now + d
        /\ \/ /\ RemoteCanFail
              /\ sresult' = Raised(TransportError)
              /\ spc' = "done"
              /\ UNCHANGED <<status_response, status, responses>>
           \/ \E r \in RemoteBodies(Len(scalls) + 1) :
              /\ status_response' = r
              /\ status' = r.state
              /\ responses' = Append(responses, r)
              /\ spc' = "classify"
              /\ UNCHANGED sresult
    /\ UNCHANGED <<timeout_seconds, poll_interval_seconds, response,
                   statement_id, start_time, remoteMode, submit_time, elapsed>>
    /\ UNCHANGED <<uvars, mvars, lvars, tvars, nvars>>

\* lines 125-129: return on SUCCEEDED, raise on FAILED/CANCELED/CLOSED
SClassify ==
    /\ spc = "classify"
    /\ IF status = "SUCCEEDED"
       THEN /\ sresult' = Returned(SucceededResult(response, status_response))
            /\ spc' = "done"
       ELSE IF status \in FailureStates
       THEN /\ sresult' = Raised(SqlError("DatabricksAPIError",
                              FailureMessage(status_response.error), status_response))
            /\ spc' = "done"
       ELSE /\ spc' = "loop"
            /\ UNCHANGED sresult
    /\ UNCHANGED <<timeout_seconds, poll_interval_seconds, response,
                   statement_id, start_time, status, status_response, now,
                   remoteMode, submit_time, elapsed, responses, scalls>>
    /\ UNCHANGED <<uvars, mvars, lvars, tvars, nvars>>

SNext ==
    \/ SSubmit
    \/ SCheckId
    \/ SLoopTest
    \/ STimeoutCheck
    \/ SSleep
    \/ SPoll
    \/ SClassify

(***************************************************************************)
(* make_api_request                                                        *)
(***************************************************************************)
\* status_code=None of DatabricksAPIError
NoStatus == 0

\* status codes of the responses requests.request hands back
StatusSamples == {200, 204, 404, 500}

\* a decoded JSON value, a text payload or no payload: "none" | "dict" |
\* "list" | "text"
Value(type, map, text) == [type |-> type, map |-> map, text |-> text]

EmptyMap == [k \in {} |-> ""]

NoPayload == Value("none", EmptyMap, "")

EmptyDict == Value("dict", EmptyMap, "")

\* a response body on the wire: nothing, text that is not JSON, a JSON array,
\* or a JSON object written as its sequence of <<key, value>> members
Body(kind, pairs, text) == [kind |-> kind, pairs |-> pairs, text |-> text]

EmptyBody == Body("empty", <<>>, "")

BodySamples ==
    { EmptyBody,
      Body("text", <<>>, "Service Unavailable"),
      Body("list", <<>>, "[]"),
      Body("dict", <<>>, ""),
      Body("dict", << <<"error", "bad request">> >>, ""),
      Body("dict", << <<"error_code", "INVALID">>, <<"message", "boom">> >>, ""),
      Body("dict", << <<"id", "a">>, <<"id", "b">> >>, "") }

HttpResponse(st, b) == [status_code |-> st, body |-> b]

NoHttpResponse == HttpResponse(NoStatus, EmptyBody)

Keys(pairs) == {pairs[i][1] : i \in 1..Len(pairs)}

\* json.loads keeps the last member of a repeated key
LastIndex(pairs, k) ==
    CHOOSE i \in 1..Len(pairs) :
        /\ pairs[i][1] = k
        /\ \A j \in 1..Len(pairs) : pairs[j][1] = k => j <= i

ObjectMap(pairs) == [k \in Keys(pairs) |-> pairs[LastIndex(pairs, k)][2]]

\* response.json() on a body that is valid JSON
JsonLoads(b) ==
    IF b.kind = "dict" THEN Value("dict", ObjectMap(b.pairs), "")
    ELSE Value("list", EmptyMap, b.text)

\* whether response.json() raises on the body
JsonFails(b) == b.kind \in {"empty", "text"}

\* lines 80-82 with the test of response.content dropped
ParseBodyNoEmptyCase(b) == JsonLoads(b)

\* lines 80-82: the value returned for a body that can be decoded
ParseBody(b) == IF b.kind = "empty" THEN EmptyDict ELSE JsonLoads(b)

\* dict.get(key, default) on a decoded object
DictGet(v, k, default) == IF k \in DOMAIN v.map THEN v.map[k] ELSE default

\* the data and files arguments: None, an empty mapping, a non-empty one
NoArg == "None"
ArgSamples == {NoArg, "{}", "{path}", "{path,contents}"}

Truthy(a) == a \notin {NoArg, "{}"}

Tokens == {"dapi-1", "dapi-2"}

\* json.dumps(data)
JsonDumps(a) == "json:" \o a

\* a log line that prints the body itself
SafeDataVerbatim(data) == data

\* line 60
SafeData(data) == IF Truthy(data) THEN "**REDACTED**" ELSE NoArg

\* lines 61 and 99: what logger.debug / logger.error are given, next to the
\* method, url and params arguments
LogEntry(level, data, message) == [level |-> level, data |-> data, message |-> message]

\* line 64
JsonData(data, files) ==
    IF Truthy(data) /\ ~Truthy(files) THEN JsonDumps(data) ELSE data

\* a request that always carries the serialized body
RequestSentSerialized(data, json_data, files, token) ==
    [ data    |-> IF Truthy(data) THEN JsonDumps(data) ELSE data,
      files   |-> files,
      headers |-> <<"Bearer", token>> ]

\* lines 67-74: the arguments of requests.request
RequestSent(data, json_data, files, token) ==
    [ data    |-> IF ~Truthy(files) THEN json_data ELSE data,
      files   |-> files,
      headers |-> <<"Bearer", token>> ]

\* the exception e of the except clause: its class and whether it carries
\* a response
Exc(cls, has) == [cls |-> cls, has_response |-> has]

NoRequestExc == Exc("None", FALSE)

\* str(e)
StrOf(e) == e.cls

\* a raised error: DatabricksAPIError has message, status_code and response
MError(t, msg, st, payload) ==
    [type |-> t, message |-> msg, status_code |-> st, response |-> payload]

\* a handler that never copies the status code
StatusCodeDropped(e, resp) == NoStatus

\* line 86
StatusCodeOf(e, resp) == IF e.has_response THEN resp.status_code ELSE NoStatus

\* line 87, and line 94 when the error body decodes to an object
ErrorMsg(e, hasDetail, detail) ==
    IF hasDetail
    THEN <<"API request failed: ", StrOf(e), " - ", detail>>
    ELSE <<"API request failed: ", StrOf(e)>>

\* lines 86-102 for an error body that decodes to an object
ErrorFromObject(e, resp) ==
    LET v == JsonLoads(resp.body)
    IN  MError("DatabricksAPIError",
               ErrorMsg(e, TRUE, DictGet(v, "error", "")),
               StatusCodeOf(e, resp), v)

\* lines 86-102 for an error body that is not JSON (except ValueError)
ErrorFromText(e, resp) ==
    MError("DatabricksAPIError", ErrorMsg(e, FALSE, ""),
           StatusCodeOf(e, resp), Value("text", EmptyMap, resp.body.text))

\* lines 86-102 for an exception without a response
ErrorNoResponse(e) ==
    MError("DatabricksAPIError", ErrorMsg(e, FALSE, ""),
           StatusCodeOf(e, NoHttpResponse), NoPayload)

OtherError(t) == MError(t, <<>>, NoStatus, NoPayload)

MIdle ==
    /\ m_data = NoArg
    /\ m_files = NoArg
    /\ m_token = "dapi-1"
    /\ mpc = "idle"
    /\ m_json_data = NoArg
    /\ m_log = <<>>
    /\ m_response = NoHttpResponse
    /\ m_exc = NoRequestExc
    /\ mresult = NoResult
    /\ m_request = RequestSent(NoArg, NoArg, NoArg, "dapi-1")
    /\ httpSent = 0
    /\ mInvocations = 0

MInit ==
    /\ m_data = NoArg
    /\ m_files = NoArg
    /\ m_token \in Tokens
    /\ mpc = "ready"
    /\ m_json_data = NoArg
    /\ m_log = <<>>
    /\ m_response = NoHttpResponse
    /\ m_exc = NoRequestExc
    /\ mresult = NoResult
    /\ m_request = RequestSent(NoArg, NoArg, NoArg, m_token)
    /\ httpSent = 0
    /\ mInvocations = 0

\* lines 55-64: a call of make_api_request up to the request itself
MCall ==
    /\ mpc \in {"ready", "done"}
    /\ mInvocations < MaxInvocations
    /\ mInvocations' = mInvocations + 1
    /\ \E d \in ArgSamples, f \in ArgSamples :
        /\ m_data' = d
        /\ m_files' = f
        /\ m_log' = <<LogEntry("debug", SafeData(d), <<>>)>>
        /\ m_json_data' = JsonData(d, f)
    /\ m_response' = NoHttpResponse
    /\ m_exc' = NoRequestExc
    /\ mresult' = NoResult
    /\ mpc' = "send"
    /\ UNCHANGED <<m_token, m_request, httpSent>>
    /\ UNCHANGED <<uvars, svars, lvars, tvars, nvars>>

\* lines 67-74: requests.request answers or raises a RequestException that
\* carries no response
MSend ==
    /\ mpc = "send"
    /\ httpSent' = httpSent + 1
    /\ m_request' = RequestSent(m_data, m_json_data, m_files, m_token)
    /\ \/ /\ m_exc' = Exc("ConnectionError", FALSE)
          /\ mpc' = "handle"
          /\ UNCHANGED m_response
       \/ \E st \in StatusSamples, b \in BodySamples :
          /\ m_response' = HttpResponse(st, b)
          /\ mpc' = "check"
          /\ UNCHANGED m_exc
    /\ UNCHANGED <<m_data, m_files, m_token, m_json_data,
                   m_log, mresult, mInvocations>>
    /\ UNCHANGED <<uvars, svars, lvars, tvars, nvars>>

\* line 77: response.raise_for_status() raises for 400..599 only
MCheckStatus ==
    /\ mpc = "check"
    /\ IF m_response.status_code >= 400 /\ m_response.status_code < 600
       THEN /\ m_exc' = Exc("HTTPError", TRUE)
            /\ mpc' = "handle"
       ELSE /\ mpc' = "parse"
            /\ UNCHANGED m_exc
    /\ UNCHANGED <<m_data, m_files, m_token, m_json_data,
                   m_log, m_response, mresult, m_request, httpSent,
                   mInvocations>>
    /\ UNCHANGED <<uvars, svars, lvars, tvars, nvars>>

\* lines 80-82: decode the body; response.json() raises
\* requests.exceptions.JSONDecodeError, a RequestException without a
\* response, which line 84 catches
MParse ==
    /\ mpc = "parse"
    /\ IF m_response.body.kind = "text"
       THEN /\ m_exc' = Exc("JSONDecodeError", FALSE)
            /\ mpc' = "handle"
            /\ UNCHANGED mresult
       ELSE /\ mresult' = Returned(ParseBody(m_response.body))
            /\ mpc' = "done"
            /\ UNCHANGED m_exc
    /\ UNCHANGED <<m_data, m_files, m_token, m_json_data,
                   m_log, m_response, m_request, httpSent, mInvocations>>
    /\ UNCHANGED <<uvars, svars, lvars, tvars, nvars>>

\* an except clause that sends the request again when no response came
MHandleRetry ==
    /\ mpc = "handle"
    /\ IF ~m_exc.has_response
       THEN /\ mpc' = "send"
            /\ UNCHANGED mresult
       ELSE /\ mresult' = Raised(ErrorFromText(m_exc, m_response))
            /\ mpc' = "done"
    /\ m_log' = Append(m_log, LogEntry("error", NoArg, ErrorMsg(m_exc, FALSE, "")))
    /\ UNCHANGED <<m_data, m_files, m_token, m_json_data,
                   m_response, m_exc, m_request, httpSent, mInvocations>>
    /\ UNCHANGED <<uvars, svars, lvars, tvars, nvars>>

\* lines 84-102: the except clause; error_response.get on a decoded body
\* that is not an object raises AttributeError, which nothing catches
MHandle ==
    /\ mpc = "handle"
    /\ mresult' =
         IF ~m_exc.has_response THEN Raised(ErrorNoResponse(m_exc))
         ELSE IF JsonFails(m_response.body)
              THEN Raised(ErrorFromText(m_exc, m_response))
         ELSE IF m_response.body.kind = "dict"
              THEN Raised(ErrorFromObject(m_exc, m_response))
         ELSE Raised(OtherError("AttributeError"))
    /\ m_log' = IF mresult'.val.type = "DatabricksAPIError"
                THEN Append(m_log, LogEntry("error", NoArg, mresult'.val.message))
                ELSE m_log
    /\ mpc' = "done"
    /\ UNCHANGED <<m_data, m_files, m_token, m_json_data,
                   m_response, m_exc, m_request, httpSent, mInvocations>>
    /\ UNCHANGED <<uvars, svars, lvars, tvars, nvars>>

MNext ==
    \/ MCall
    \/ MSend
    \/ MCheckStatus
    \/ MParse
    \/ MHandle

(***************************************************************************)
(* Operations started together on one asyncio event loop                   *)
(***************************************************************************)
\* the coroutines the server has started on its event loop
Tasks == {"t1", "t2"}

NoTask == "none"

\* outcome of a coroutine: the response it returned (by its number among the
\* responses the coroutine received) or the exception it raised
Outcome(kind, n, type) == [kind |-> kind, n |-> n, type |-> type]

NoOutcome == Outcome("none", 0, "")

\* a coroutine object before its first step
Coroutine(kind, timeout, interval, runFor, blocks) ==
    [kind |-> kind, pc |-> "start", site |-> "",
     timeout_seconds |-> timeout, poll_interval_seconds |-> interval,
     runFor |-> runFor, blocks |-> blocks,
     id |-> 0, start_time |-> 0, status |-> "", wake |-> 0,
     received |-> 0, chunk_index |-> 0, result |-> NoOutcome]

\* upload_large_file of a file of b chunks, execute_and_wait of a statement
\* that the remote side reports RUNNING rf times before SUCCEEDED, and a
\* plain resource call (list_files)
Coroutines ==
    {Coroutine("upload", 0, 1, 0, b) : b \in 0..MaxBlocks}
    \cup {Coroutine("sql", to, iv, rf, 0) :
             to \in 0..MaxTimeout, iv \in 1..MaxInterval, rf \in 0..MaxRunning}
    \cup {Coroutine("call", 0, 1, 0, 0)}

\* the state the remote side reports in its n-th response about a statement
StateReported(runFor, n) == IF n <= runFor THEN "RUNNING" ELSE "SUCCEEDED"

\* what goes over the wire: a request leaving, a response arriving
Req(t, ep, id, n) == [ev |-> "req", task |-> t, ep |-> ep, id |-> id, n |-> n]

Resp(t, ep, id, n) == [ev |-> "resp", task |-> t, ep |-> ep, id |-> id, n |-> n]

\* the event loop runs one coroutine at a time, up to its next suspension
CanRun(t) == running \in {NoTask, t}

\* a coroutine the loop could resume now: not finished, not inside a
\* request, and not in a sleep that has yet to expire
Ready(t) ==
    /\ task[t].pc \notin {"done", "wait"}
    /\ task[t].pc = "sleeping" => task[t].wake <= clock

LIdle ==
    /\ task = [t \in Tasks |-> [Coroutine("call", 0, 1, 0, 0) EXCEPT !.pc = "done"]]
    /\ running = NoTask
    /\ clock = 0
    /\ netLatency = 0
    /\ wire = <<>>
    /\ issued = 0

LInit ==
    /\ task \in [Tasks -> Coroutines]
    /\ running = NoTask
    /\ clock = 0
    /\ netLatency \in Latencies
    /\ wire = <<>>
    /\ issued = 0

\* the endpoint of the make_api_request call at a call site
Endpoint(kind, site) ==
    CASE kind = "sql" /\ site = "start" -> "execute"
      [] kind = "sql" /\ site = "poll" -> "status"
      [] kind = "upload" /\ site = "start" -> "create"
      [] kind = "upload" /\ site = "block" -> "add-block"
      [] kind = "upload" /\ site \in {"close", "abort"} -> "close"
      [] OTHER -> "list"

CallSites == {"start", "poll", "block", "close", "abort"}

\* a handle kept in one place for all uploads: the first one ever issued
CarriedIdShared(c) == IF c.id = 0 THEN 0 ELSE 1

\* the handle / statement_id local of the coroutine (0 before it is set)
CarriedId(c) == c.id

\* utils.py lines 67-74: requests.request is entered; the coroutine keeps
\* the thread until the call returns
LSend(t) ==
    /\ CanRun(t)
    /\ task[t].pc \in CallSites
    /\ wire' = Append(wire, Req(t, Endpoint(task[t].kind, task[t].pc),
                               CarriedId(task[t]), task[t].chunk_index))
    /\ task' = [task EXCEPT ![t].pc = "wait", ![t].site = task[t].pc]
    /\ running' = t
    /\ UNCHANGED <<clock, netLatency, issued>>
    /\ UNCHANGED <<uvars, svars, mvars, tvars, nvars>>

\* the response of the outstanding call arrives after the network latency
Arrive(t, next, granted) ==
    /\ task[t].pc = "wait"
    /\ clock' = clock + netLatency
    /\ wire' = Append(wire, Resp(t, Endpoint(task[t].kind, task[t].site),
                                IF granted # 0 THEN granted ELSE task[t].id,
                                task[t].chunk_index))
    /\ task' = [task EXCEPT ![t] = [next EXCEPT !.received = task[t].received + 1]]
    /\ running' = IF next.pc = "done" THEN NoTask ELSE t
    /\ issued' = IF granted # 0 THEN granted ELSE issued
    /\ UNCHANGED netLatency
    /\ UNCHANGED <<uvars, svars, mvars, tvars, nvars>>

\* a plain resource call returns the decoded response
LCallRecv(t) ==
    /\ task[t].kind = "call"
    /\ Arrive(t, [task[t] EXCEPT !.pc = "done", !.result = Outcome("return", 1, "")], 0)

\* sql.py lines 97-111: the submission response, statement_id, start_time
\* and the first status
LSubmitRecv(t) ==
    /\ task[t].kind = "sql" /\ task[t].site = "start"
    /\ Arrive(t, [task[t] EXCEPT !.pc = "loop",
                                 !.id = issued + 1,
                                 !.start_time = clock + netLatency,
                                 !.status = StateReported(task[t].runFor, 1)],
              issued + 1)

\* sql.py lines 113-119 and 131: the loop test, the timeout check and the
\* await of asyncio.sleep, which gives the thread back to the loop
LLoop(t) ==
    /\ CanRun(t)
    /\ task[t].kind = "sql" /\ task[t].pc = "loop"
    /\ IF task[t].status \notin ActiveStates
       THEN /\ task' = [task EXCEPT ![t].pc = "done",
                                    ![t].result = Outcome("return", 1, "")]
       ELSE IF TimedOut(clock, task[t].start_time, task[t].timeout_seconds)
       THEN /\ task' = [task EXCEPT ![t].pc = "done",
                                    ![t].result = Outcome("raise", 0, "TimeoutError")]
       ELSE /\ task' = [task EXCEPT ![t].pc = "sleeping",
                                    ![t].wake = clock + task[t].poll_interval_seconds]
    /\ running' = NoTask
    /\ UNCHANGED <<clock, netLatency, wire, issued>>
    /\ UNCHANGED <<uvars, svars, mvars, tvars, nvars>>

\* the event loop resumes a coroutine whose sleep has expired
LWake(t) ==
    /\ running = NoTask
    /\ task[t].pc = "sleeping"
    /\ task[t].wake <= clock
    /\ task' = [task EXCEPT ![t].pc = "poll"]
    /\ running' = t
    /\ UNCHANGED <<clock, netLatency, wire, issued>>
    /\ UNCHANGED <<uvars, svars, mvars, tvars, nvars>>

\* sql.py lines 122-129: the poll response and the state it reports
LPollRecv(t) ==
    /\ task[t].kind = "sql" /\ task[t].site = "poll"
    /\ LET st == StateReported(task[t].runFor, task[t].received + 1)
       IN  Arrive(t, IF st = "SUCCEEDED"
                     THEN [task[t] EXCEPT !.pc = "done", !.status = st,
                              !.result = Outcome("return", task[t].received + 1, "")]
                     ELSE [task[t] EXCEPT !.pc = "loop", !.status = st],
                  0)

\* dbfs.py lines 93-96: the next read decides between add-block and close
AfterRead(c, index) == IF index < c.blocks THEN "block" ELSE "close"

\* dbfs.py lines 79-96: the create response and its handle
LCreateRecv(t) ==
    /\ task[t].kind = "upload" /\ task[t].site = "start"
    /\ Arrive(t, [task[t] EXCEPT !.pc = AfterRead(task[t], 0), !.id = issued + 1],
              issued + 1)

\* dbfs.py lines 102-112 and 121: the add-block response, or its error
LBlockRecv(t) ==
    /\ task[t].kind = "upload" /\ task[t].site = "block"
    /\ \E o \in {"ok", "rejected"} :
          Arrive(t, IF o = "ok"
                    THEN [task[t] EXCEPT !.pc = AfterRead(task[t], task[t].chunk_index + 1),
                                         !.chunk_index = task[t].chunk_index + 1]
                    ELSE [task[t] EXCEPT !.pc = "abort"],
                 0)

\* dbfs.py lines 115-119 and 123-133: the close response
LCloseRecv(t) ==
    /\ task[t].kind = "upload" /\ task[t].site \in {"close", "abort"}
    /\ Arrive(t, IF task[t].site = "close"
                 THEN [task[t] EXCEPT !.pc = "done",
                          !.result = Outcome("return", task[t].received + 1, "")]
                 ELSE [task[t] EXCEPT !.pc = "done",
                          !.result = Outcome("raise", 0, "DatabricksAPIError")],
              0)

\* time passes while the loop has nothing to run
LTick ==
    /\ running = NoTask
    /\ \A t \in Tasks : ~Ready(t)
    /\ \E t \in Tasks :
        /\ task[t].pc = "sleeping"
        /\ \A u \in Tasks : task[u].pc = "sleeping" => task[t].wake <= task[u].wake
        /\ clock' = task[t].wake
    /\ UNCHANGED <<task, running, netLatency, wire, issued>>
    /\ UNCHANGED <<uvars, svars, mvars, tvars, nvars>>

LNext ==
    \/ \E t \in Tasks : LSend(t)
    \/ \E t \in Tasks : LCallRecv(t)
    \/ \E t \in Tasks : LSubmitRecv(t)
    \/ \E t \in Tasks : LLoop(t)
    \/ \E t \in Tasks : LWake(t)
    \/ \E t \in Tasks : LPollRecv(t)
    \/ \E t \in Tasks : LCreateRecv(t)
    \/ \E t \in Tasks : LBlockRecv(t)
    \/ \E t \in Tasks : LCloseRecv(t)
    \/ LTick

(***************************************************************************)
(* Tools of DatabricksMCPServer                                            *)
(***************************************************************************)
\* the tools registered by _register_tools
ToolNames ==
    {"list_clusters", "create_cluster", "terminate_cluster", "get_cluster",
     "start_cluster", "list_jobs", "run_job", "list_notebooks",
     "export_notebook", "list_files", "execute_sql"}

\* the attribute of src.api that each tool function calls
ApiFunction(name) ==
    CASE name = "list_clusters" -> <<"clusters", "list_clusters">>
      [] name = "create_cluster" -> <<"clusters", "create_cluster">>
      [] name = "terminate_cluster" -> <<"clusters", "terminate_cluster">>
      [] name = "get_cluster" -> <<"clusters", "get_cluster">>
      [] name = "start_cluster" -> <<"clusters", "start_cluster">>
      [] name = "list_jobs" -> <<"jobs", "list_jobs">>
      [] name = "run_job" -> <<"jobs", "run_job">>
      [] name = "list_notebooks" -> <<"notebooks", "list_notebooks">>
      [] name = "export_notebook" -> <<"notebooks", "export_notebook">>
      [] name = "list_files" -> <<"dbfs", "list_files">>
      [] name = "execute_sql" -> <<"sql", "execute_sql">>

\* the functions the modules of src.api define
ApiDefined ==
    {<<"clusters", f>> : f \in {"create_cluster", "terminate_cluster", "list_clusters",
                               "get_cluster", "start_cluster", "resize_cluster",
                               "restart_cluster"}}
    \cup {<<"jobs", f>> : f \in {"create_job", "run_job", "list_jobs", "get_job",
                                "update_job", "delete_job", "get_run", "cancel_run"}}
    \cup {<<"notebooks", f>> : f \in {"import_notebook", "export_notebook",
                                     "list_notebooks", "delete_notebook",
                                     "create_directory", "is_base64"}}
    \cup {<<"dbfs", f>> : f \in {"put_file", "upload_large_file", "get_file",
                                "list_files", "delete_file", "get_status",
                                "create_directory"}}
    \cup {<<"sql", f>> : f \in {"execute_statement", "execute_and_wait",
                               "get_statement_status", "cancel_statement"}}

\* the path each API function hands to make_api_request
ApiPath(fn) ==
    CASE fn = <<"clusters", "list_clusters">> -> "/api/2.0/clusters/list"
      [] fn = <<"clusters", "create_cluster">> -> "/api/2.0/clusters/create"
      [] fn = <<"clusters", "terminate_cluster">> -> "/api/2.0/clusters/delete"
      [] fn = <<"clusters", "get_cluster">> -> "/api/2.0/clusters/get"
      [] fn = <<"clusters", "start_cluster">> -> "/api/2.0/clusters/start"
      [] fn = <<"jobs", "list_jobs">> -> "/api/2.0/jobs/list"
      [] fn = <<"jobs", "run_job">> -> "/api/2.0/jobs/run-now"
      [] fn = <<"notebooks", "list_notebooks">> -> "/api/2.0/workspace/list"
      [] fn = <<"notebooks", "export_notebook">> -> "/api/2.0/workspace/export"
      [] fn = <<"dbfs", "list_files">> -> "/api/2.0/dbfs/list"
      [] OTHER -> "/api/2.0/sql/statements/execute"

\* a decoded payload: the path it answers, the size class of its "content"
\* field ("" when it has none), and the fields the client side adds
Payload(path, content, decoded, truncated) ==
    [path |-> path, content |-> content, decoded_content |-> decoded,
     truncated |-> truncated]

NoToolPayload == Payload("", "", FALSE, FALSE)

\* what the remote side answers on a path when it accepts the request
RemotePayloads(path) ==
    IF path = "/api/2.0/workspace/export"
    THEN {Payload(path, c, FALSE, FALSE) : c \in {"short", "long"}}
    ELSE {Payload(path, "", FALSE, FALSE)}

\* json.dumps of a result
JsonText(v) == <<"json", v>>

\* {"error": str(e)}
ErrorObject(msg) == [error |-> msg]

\* {"type": "text", "text": ...}
TextItem(text) == [type |-> "text", text |-> text]

TIdle ==
    /\ t_name = "list_clusters"
    /\ t_params = "required"
    /\ t_format = "SOURCE"
    /\ t_pc = "idle"
    /\ t_remote = NoToolPayload
    /\ t_result = NoToolPayload
    /\ t_exc = ""
    /\ t_return = <<>>
    /\ t_calls = <<>>

\* call_tool(name, params)
TInit ==
    /\ t_name \in ToolNames
    /\ t_params \in {"required", "all"}
    /\ t_format \in IF t_name = "export_notebook" /\ t_params = "all"
                   THEN {"SOURCE", "JUPYTER", "HTML"} ELSE {"SOURCE"}
    /\ t_pc = "start"
    /\ t_remote = NoToolPayload
    /\ t_result = NoToolPayload
    /\ t_exc = ""
    /\ t_return = <<>>
    /\ t_calls = <<>>

\* databricks_mcp_server.py: the tool function looks its API function up in
\* the module (clusters.list_clusters, ..., sql.execute_sql)
TResolve ==
    /\ t_pc = "start"
    /\ IF ApiFunction(t_name) \in ApiDefined
       THEN /\ t_pc' = "call"
            /\ UNCHANGED t_exc
       ELSE /\ t_exc' = "AttributeError"
            /\ t_pc' = "except"
    /\ UNCHANGED <<t_name, t_params, t_format, t_remote, t_result, t_return, t_calls>>
    /\ UNCHANGED <<uvars, svars, mvars, lvars, nvars>>

\* notebooks.py lines 83-88: export_notebook adds decoded_content when the
\* content decodes; every other API function returns the payload as it is
ApiResult(fn, p, format, decodes) ==
    IF fn = <<"notebooks", "export_notebook">> /\ format \in {"SOURCE", "JUPYTER"} /\ decodes
    THEN [p EXCEPT !.decoded_content = TRUE]
    ELSE p

\* the API function calls make_api_request, which returns the decoded
\* payload or raises DatabricksAPIError
TCall ==
    /\ t_pc = "call"
    /\ t_calls' = Append(t_calls, [path |-> ApiPath(ApiFunction(t_name)),
                                   args |-> t_params])
    /\ \/ /\ t_exc' = "DatabricksAPIError"
          /\ t_pc' = "except"
          /\ UNCHANGED <<t_remote, t_result>>
       \/ \E p \in RemotePayloads(ApiPath(ApiFunction(t_name))), decodes \in BOOLEAN :
          /\ t_remote' = p
          /\ t_result' = ApiResult(ApiFunction(t_name), p, t_format, decodes)
          /\ t_pc' = "return"
          /\ UNCHANGED t_exc
    /\ UNCHANGED <<t_name, t_params, t_format, t_return>>
    /\ UNCHANGED <<uvars, svars, mvars, lvars, nvars>>

\* databricks_mcp_server.py lines 289-292: export_notebook cuts a content
\* of more than 1000 characters
Trimmed(name, r) ==
    IF name = "export_notebook" /\ r.content = "long"
    THEN [r EXCEPT !.truncated = TRUE]
    ELSE r

\* return [{"type": "text", "text": json.dumps(result)}]
TReturn ==
    /\ t_pc = "return"
    /\ t_result' = Trimmed(t_name, t_result)
    /\ t_return' = <<TextItem(JsonText(t_result'))>>
    /\ t_pc' = "done"
    /\ UNCHANGED <<t_name, t_params, t_format, t_remote, t_exc, t_calls>>
    /\ UNCHANGED <<uvars, svars, mvars, lvars, nvars>>

\* except Exception as e: return [{"type": "text", "text": json.dumps({"error": str(e)})}]
TExcept ==
    /\ t_pc = "except"
    /\ t_return' = <<TextItem(JsonText(ErrorObject(t_exc)))>>
    /\ t_pc' = "done"
    /\ UNCHANGED <<t_name, t_params, t_format, t_remote, t_result, t_exc, t_calls>>
    /\ UNCHANGED <<uvars, svars, mvars, lvars, nvars>>

TNext ==
    \/ TResolve
    \/ TCall
    \/ TReturn
    \/ TExcept

(***************************************************************************)
(* import_notebook                                                         *)
(***************************************************************************)
\* characters are code points: Q, R, =, newline and e-acute
CharSamples == {81, 82, 61, 10, 233}

\* str.encode("utf-8") of one character
Utf8Char(c) == IF c < 128 THEN <<c>> ELSE <<192 + (c \div 64), 128 + (c % 64)>>

\* str.encode("utf-8")
RECURSIVE Utf8(_)
Utf8(str) == IF Len(str) = 0 THEN <<>> ELSE Utf8Char(Head(str)) \o Utf8(Tail(str))

\* the character of a digit of the base64 alphabet (Pad is "=")
Ascii(d) ==
    CASE d < 26 -> 65 + d
      [] d >= 26 /\ d < 52 -> 71 + d
      [] d >= 52 /\ d < 62 -> d - 4
      [] d = 62 -> 43
      [] d = 63 -> 47
      [] OTHER -> 61

\* the digit that a character stands for, Pad for "=", more for any other
\* character
Sextet(c) ==
    CASE c >= 65 /\ c <= 90 -> c - 65
      [] c >= 97 /\ c <= 122 -> c - 71
      [] c >= 48 /\ c <= 57 -> c + 4
      [] c = 43 -> 62
      [] c = 47 -> 63
      [] c = 61 -> Pad
      [] OTHER -> Pad + 1

\* base64.b64encode(...) as characters
B64EncodeStr(bytes) == [i \in 1..Len(B64Encode(bytes)) |-> Ascii(B64Encode(bytes)[i])]

\* result of base64.b64decode: the bytes, or binascii.Error / ValueError
Decoded(ok, bytes) == [ok |-> ok, bytes |-> bytes]

\* binascii.a2b_base64 without strict mode: characters outside the alphabet
\* are skipped, a complete pad sequence ends the input, and an incomplete
\* last group is an error
RECURSIVE A2b(_, _, _, _, _, _)
A2b(str, i, quad_pos, leftchar, pads, out) ==
    IF i > Len(str) THEN Decoded(quad_pos = 0, out)
    ELSE LET d == Sextet(str[i])
         IN  IF d = Pad
             THEN IF quad_pos >= 2 /\ quad_pos + pads + 1 >= 4
                  THEN Decoded(TRUE, out)
                  ELSE A2b(str, i + 1, quad_pos, leftchar,
                           IF quad_pos >= 2 THEN pads + 1 ELSE pads, out)
             ELSE IF d > Pad THEN A2b(str, i + 1, quad_pos, leftchar, pads, out)
             ELSE CASE quad_pos = 0 -> A2b(str, i + 1, 1, d, 0, out)
                    [] quad_pos = 1 ->
                         A2b(str, i + 1, 2, d % 16, 0, Append(out, leftchar * 4 + (d \div 16)))
                    [] quad_pos = 2 ->
                         A2b(str, i + 1, 3, d % 4, 0, Append(out, leftchar * 16 + (d \div 4)))
                    [] OTHER ->
                         A2b(str, i + 1, 0, 0, 0, Append(out, leftchar * 64 + d))

\* base64.b64decode(content) of a str: non-ASCII characters are a ValueError
B64DecodeStr(str) ==
    IF \E i \in 1..Len(str) : str[i] >= 128 THEN Decoded(FALSE, <<>>)
    ELSE A2b(str, 1, 0, 0, 0, <<>>)

\* a check that accepts whatever decodes
IsBase64Decodable(content) == B64DecodeStr(content).ok

\* notebooks.py lines 149-162: is_base64
IsBase64(content) ==
    /\ B64DecodeStr(content).ok
    /\ B64EncodeStr(B64DecodeStr(content).bytes) = Utf8(content)

NIdle ==
    /\ n_content = <<>>
    /\ n_pc = "idle"
    /\ n_sent = <<>>

\* import_notebook(path, content)
NInit ==
    /\ n_content \in SeqsUpTo(CharSamples, MaxContent)
    /\ n_pc = "start"
    /\ n_sent = <<>>

\* line 41: if not is_base64(content)
NCheck ==
    /\ n_pc = "start"
    /\ n_sent' = n_content
    /\ n_pc' = IF IsBase64(n_content) THEN "send" ELSE "encode"
    /\ UNCHANGED n_content
    /\ UNCHANGED <<uvars, svars, mvars, lvars, tvars>>

\* line 42: content = base64.b64encode(content.encode("utf-8")).decode("utf-8")
NEncode ==
    /\ n_pc = "encode"
    /\ n_sent' = B64EncodeStr(Utf8(n_sent))
    /\ n_pc' = "send"
    /\ UNCHANGED n_content
    /\ UNCHANGED <<uvars, svars, mvars, lvars, tvars>>

\* lines 44-54: import_data["content"] goes out with the request
NSend ==
    /\ n_pc = "send"
    /\ n_pc' = "done"
    /\ UNCHANGED <<n_content, n_sent>>
    /\ UNCHANGED <<uvars, svars, mvars, lvars, tvars>>

NNext ==
    \/ NCheck
    \/ NEncode
    \/ NSend

(***************************************************************************)
(* Specifications                                                          *)
(***************************************************************************)
\* one upload_large_file call against an arbitrary remote side
UploadInit == UInit /\ SInputs /\ timeout_seconds = 0 /\ poll_interval_seconds = 1
              /\ remoteMode = "any" /\ MIdle /\ LIdle /\ TIdle /\ NIdle

UploadSpec == UploadInit /\ [][UNext]_vars

UIdle ==
    /\ fileState = "missing"
    /\ fileBytes = <<>>
    /\ buffer_size = 1
    /\ upc = "idle"
    /\ handle = None
    /\ fpos = 0
    /\ chunk = <<>>
    /\ chunk_index = 0
    /\ uexc = NoExc
    /\ uresult = NoResult
    /\ ucalls = <<>>
    /\ rHandle = "none"
    /\ rBlocks = <<>>
    /\ rCommitted = FALSE
    /\ rObject = <<>>

\* one execute_and_wait call against an arbitrary remote side
SqlInit == SInputs /\ remoteMode = "any" /\ UIdle /\ MIdle /\ LIdle /\ TIdle /\ NIdle

SqlSpec == SqlInit /\ [][SNext]_vars

\* one execute_and_wait call against a remote side that answers every call
\* and reports RUNNING every time; every step of the coroutine is eventually
\* taken
RunningInit == SInputs /\ remoteMode = "running" /\ UIdle /\ MIdle /\ LIdle
               /\ TIdle /\ NIdle

RunningSpec == RunningInit /\ [][SNext]_vars /\ WF_vars(SNext)

SIdle ==
    /\ timeout_seconds = 0
    /\ poll_interval_seconds = 1
    /\ spc = "idle"
    /\ response = NoResponse
    /\ statement_id = None
    /\ start_time = 0
    /\ status = ""
    /\ status_response = NoResponse
    /\ sresult = NoResult
    /\ now = 0
    /\ remoteMode = "any"
    /\ submit_time = 0
    /\ elapsed = 0
    /\ responses = <<>>
    /\ scalls = <<>>

\* a sequence of make_api_request calls against an arbitrary remote side
RequestInit == MInit /\ UIdle /\ SIdle /\ LIdle /\ TIdle /\ NIdle

RequestSpec == RequestInit /\ [][MNext]_vars

\* one operation of the core, whichever it is: an upload, a statement
\* execution or a sequence of plain transport calls
CoreInit ==
    \/ UInit /\ SIdle /\ MIdle /\ LIdle /\ TIdle /\ NIdle
    \/ SqlInit
    \/ RequestInit

CoreNext ==
    \/ UNext
    \/ SNext
    \/ MNext

CoreSpec == CoreInit /\ [][CoreNext]_vars

\* two operations started together on the server's event loop
LoopInit == LInit /\ UIdle /\ SIdle /\ MIdle /\ TIdle /\ NIdle

LoopSpec == LoopInit /\ [][LNext]_vars

\* one import_notebook call
NotebookInit == NInit /\ UIdle /\ SIdle /\ MIdle /\ LIdle /\ TIdle

NotebookSpec == NotebookInit /\ [][NNext]_vars

\* one call of a tool of the MCP server
ToolInit == TInit /\ UIdle /\ SIdle /\ MIdle /\ LIdle /\ NIdle

ToolSpec == ToolInit /\ [][TNext]_vars

(***************************************************************************)
(* Observations on the upload                                              *)
(***************************************************************************)
UDone == upc = "done"

CallsOf(ep) == SelectSeq(ucalls, LAMBDA c : c.ep = ep)

AddBlocks == CallsOf("add-block")

Closes == CallsOf("close")

CreateOk == Len(ucalls) >= 1 /\ ucalls[1].outcome = "ok"

AllCallsOk == \A i \in 1..Len(ucalls) : ucalls[i].outcome = "ok"

CeilDiv(n, c) == (n + c - 1) \div c

\* the bytes the remote side reads out of add-block calls 1..k, in call order
RECURSIVE ConcatBlocks(_, _)
ConcatBlocks(blocks, k) ==
    IF k = 0 THEN <<>>
    ELSE ConcatBlocks(blocks, k - 1) \o B64Decode(blocks[k].data)

FailedAddBlocks ==
    {k \in 1..Len(ucalls) : ucalls[k].ep = "add-block" /\ ucalls[k].outcome # "ok"}

\* C1: for a readable file of N bytes and chunk size C, when every remote
\* call succeeds, the finished upload has issued exactly ceil(N/C) add-block
\* calls, each carrying at most C bytes, and the chunks concatenated in call
\* order are the file content.
C1_ChunkCountAndOrder ==
    (UDone /\ fileState = "ok" /\ AllCallsOk) =>
        /\ Len(AddBlocks) = CeilDiv(Len(fileBytes), buffer_size)
        /\ \A i \in 1..Len(AddBlocks) :
              /\ Len(B64Decode(AddBlocks[i].data)) <= buffer_size
              /\ AddBlocks[i].handle = IssuedHandle
        /\ ConcatBlocks(AddBlocks, Len(AddBlocks)) = fileBytes

C1_Witness ==
    /\ UDone /\ fileState = "ok" /\ AllCallsOk
    /\ Len(fileBytes) = 3 /\ buffer_size = 2
    /\ Len(AddBlocks) = 2
    /\ fileBytes[1] # fileBytes[2]

\* C2 as stated: after any call whose create succeeded, the remote handle is
\* no longer open when the call has returned or raised.
C2_HandleNeverLeftOpen ==
    (UDone /\ CreateOk) => rHandle # "open"

\* C2 amended: after any call whose create succeeded, at least one close call
\* has been issued, and the handle is still open only if every close call the
\* upload issued failed.
C2_ClosedUnlessEveryCloseFailed ==
    (UDone /\ CreateOk) =>
        /\ Len(Closes) >= 1
        /\ (rHandle = "open" =>
               \A i \in 1..Len(Closes) : Closes[i].outcome # "ok")
        /\ ((\E i \in 1..Len(Closes) : Closes[i].outcome = "ok") =>
               rHandle = "closed")

C2_Witness ==
    /\ UDone /\ CreateOk
    /\ FailedAddBlocks # {}
    /\ Closes[Len(Closes)].outcome = "ok"
    /\ rHandle = "closed"
    /\ uresult.kind = "raise"

\* C3: for every call whose create succeeded, exactly one close call is
\* issued over the whole call, whatever the outcomes of the add-block calls
\* and of the close call.
C3_ExactlyOneClose ==
    (UDone /\ CreateOk) => Len(Closes) = 1

\* C4: once an add-block call has failed, no further add-block call is
\* issued, exactly one close call follows, and whatever the outcome of that
\* close the caller gets the error of the failed add-block call.
C4_AddBlockFailure ==
    \A k \in FailedAddBlocks :
        /\ Len(ucalls) <= k + 1
        /\ (Len(ucalls) = k + 1 => ucalls[k + 1].ep = "close")
        /\ (UDone => /\ Len(ucalls) = k + 1
                     /\ uresult = Raised(ApiError(k)))

C4_Witness ==
    /\ UDone
    /\ \E k \in FailedAddBlocks :
          /\ k = 3
          /\ Len(ucalls) = 4
          /\ ucalls[4].ep = "close"
          /\ ucalls[4].outcome = "rejected"
          /\ uresult = Raised(ApiError(3))

\* C5: an upload call that ends with an error has not committed an object on
\* the remote side.
C5_CommitOnlyOnSuccess ==
    (UDone /\ uresult.kind = "raise") => ~rCommitted

(***************************************************************************)
(* Observations on the statement execution                                 *)
(***************************************************************************)
SDone == spc = "done"

Polls == SelectSeq(scalls, LAMBDA c : c.ep = "status")

ObservedStates == [i \in 1..Len(responses) |-> responses[i].state]

LastResponse == responses[Len(responses)]

ActiveObserved == {i \in 1..Len(responses) : responses[i].state \in ActiveStates}

\* C6: execute_and_wait never returns normally a payload whose state is
\* FAILED, CANCELED or CLOSED; once the submission response or a poll
\* response has reported such a state, the call ends with a
\* DatabricksAPIError.
C6_FailureStateAlwaysRaises ==
    SDone =>
        /\ (sresult.kind = "return" => sresult.val.state \notin FailureStates)
        /\ ((/\ Len(responses) >= 1
             /\ responses[1].statement_id # None
             /\ \E i \in 1..Len(responses) : responses[i].state \in FailureStates)
              => /\ sresult.kind = "raise"
                 /\ sresult.val.type = "DatabricksAPIError")

\* C7: when the submission returned an identifier and the last state the
\* remote side reported is SUCCEEDED (so no timeout and no transport error
\* ended the call), the number of polls issued is the number of
\* PENDING/RUNNING states observed before it, and the value returned is the
\* response that reported SUCCEEDED.
C7_PollCountAndPayload ==
    (/\ SDone
     /\ Len(responses) >= 1
     /\ responses[1].statement_id # None
     /\ LastResponse.state = "SUCCEEDED") =>
        /\ Len(Polls) = Cardinality(ActiveObserved)
        /\ ActiveObserved = 1..(Len(responses) - 1)
        /\ sresult = Returned(LastResponse)

C7_Witness ==
    /\ SDone
    /\ ObservedStates = <<"PENDING", "RUNNING", "RUNNING", "SUCCEEDED">>
    /\ Len(Polls) = 3
    /\ sresult = Returned(responses[4])

C7_WitnessNoPoll ==
    /\ SDone
    /\ ObservedStates = <<"SUCCEEDED">>
    /\ Len(Polls) = 0
    /\ sresult = Returned(responses[1])

TimedOutResult == sresult.kind = "raise" /\ sresult.val.type = "TimeoutError"

\* C8: against a remote side that reports RUNNING on submission and on every
\* poll, execute_and_wait eventually ends with the timeout error, and when
\* the timeout is one poll interval at least one poll was issued before it.
C8_TimeoutTerminates ==
    /\ <>(SDone /\ TimedOutResult)
    /\ []((SDone /\ TimedOutResult /\ timeout_seconds = poll_interval_seconds)
              => Len(Polls) >= 1)

C8_Witness ==
    /\ SDone /\ TimedOutResult
    /\ remoteMode = "running"
    /\ timeout_seconds = poll_interval_seconds
    /\ Len(Polls) >= 1

\* C9 as stated: when a poll reports FAILED without error detail, the message
\* of the error raised is exactly "Unknown error".
C9_MessageIsUnknownError ==
    (/\ SDone
     /\ Len(responses) >= 2
     /\ sresult.kind = "raise"
     /\ sresult.val.response = LastResponse
     /\ LastResponse.state = "FAILED"
     /\ LastResponse.error = ErrAbsent) =>
        sresult.val.message = "Unknown error"

\* C9 amended: when a poll reports FAILED without error detail, the message
\* of the error raised is exactly "Query execution failed: Unknown error".
C9_MessageEndsWithDefault ==
    (/\ SDone
     /\ Len(responses) >= 2
     /\ responses[1].statement_id # None
     /\ LastResponse.state = "FAILED"
     /\ LastResponse.error = ErrAbsent) =>
        /\ sresult.kind = "raise"
        /\ sresult.val.type = "DatabricksAPIError"
        /\ sresult.val.message = "Query execution failed: Unknown error"

C9_Witness ==
    /\ SDone
    /\ Len(responses) = 2
    /\ LastResponse.state = "FAILED"
    /\ LastResponse.error = ErrAbsent
    /\ sresult.kind = "raise"
    /\ sresult.val.message = "Query execution failed: Unknown error"

\* C10: the elapsed time compared with the timeout before a poll is the time
\* since execute_statement was called.
C10_ElapsedSinceSubmission ==
    (spc = "sleep" \/ (SDone /\ TimedOutResult)) => elapsed = now - submit_time

\* C11: no execution calls the remote cancel endpoint, and once the timeout
\* error is raised no call follows the last response that was observed: the
\* calls issued are the submission and one status poll per earlier
\* PENDING/RUNNING response, nothing after the timeout.
C11_NoCallAfterTimeout ==
    /\ \A i \in 1..Len(scalls) : scalls[i].ep \in {"execute", "status"}
    /\ (SDone /\ TimedOutResult) =>
          /\ Len(scalls) = Len(responses)
          /\ LastResponse.state \in ActiveStates
          /\ Len(Polls) = Len(responses) - 1

C11_Witness ==
    /\ SDone /\ TimedOutResult
    /\ Len(Polls) = 2
    /\ remoteMode = "any"

\* C12: when the submission response has no statement identifier, the call
\* issues no status poll and ends with ValueError, whatever state the
\* response reports.
C12_MissingIdIsValueError ==
    (/\ Len(responses) >= 1
     /\ responses[1].statement_id = None
     /\ spc # "check_id") =>
        /\ Polls = <<>>
        /\ SDone
        /\ sresult.kind = "raise"
        /\ sresult.val.type = "ValueError"

C12_Witness ==
    /\ SDone
    /\ Len(responses) = 1
    /\ responses[1].statement_id = None
    /\ responses[1].state = "RUNNING"
    /\ sresult.kind = "raise"
    /\ sresult.val.type = "ValueError"

\* C13: when the local file does not exist the call ends with
\* FileNotFoundError and no transport call (create, add-block, close) is ever
\* issued.
C13_MissingFileNoCalls ==
    fileState = "missing" =>
        /\ ucalls = <<>>
        /\ rHandle = "none"
        /\ upc \in {"start", "done", "idle"}
        /\ (UDone => uresult = Raised(LocalError("FileNotFoundError")))

C13_Witness ==
    /\ UDone
    /\ fileState = "missing"
    /\ ucalls = <<>>
    /\ uresult = Raised(LocalError("FileNotFoundError"))

\* C14: when the create call fails, no add-block and no close call is issued
\* and the caller gets the error of the create call.
C14_CreateFailureNoClose ==
    (Len(ucalls) >= 1 /\ ucalls[1].outcome # "ok") =>
        /\ Len(ucalls) = 1
        /\ UDone
        /\ uresult = Raised(ApiError(1))

C14_Witness ==
    /\ UDone
    /\ Len(ucalls) = 1
    /\ ucalls[1].ep = "create"
    /\ ucalls[1].outcome = "rejected"
    /\ uresult = Raised(ApiError(1))

(***************************************************************************)
(* Observations on make_api_request                                        *)
(***************************************************************************)
MDone == mpc = "done"

\* requests.request handed a response back in the current call
Reached == m_response # NoHttpResponse

Is2xx(r) == r.status_code >= 200 /\ r.status_code < 300

Is4xx5xx(r) == r.status_code >= 400 /\ r.status_code < 600

RaisedApiError == mresult.kind = "raise" /\ mresult.val.type = "DatabricksAPIError"

\* C15: a call in which no response is reached, or the status is not 2xx, or
\* the body of a 2xx response is not valid JSON, ends by raising
\* DatabricksAPIError: it returns nothing and raises nothing else.
C15_FailureIsNormalizedError ==
    (MDone /\ (\/ ~Reached
               \/ ~Is2xx(m_response)
               \/ m_response.body.kind = "text")) => RaisedApiError

\* C16: for a non-2xx response whose body is a JSON object, the message of
\* the DatabricksAPIError raised contains the text of the body's detail
\* fields, and the decoded body is the error's raw payload.
C16_MessageHasErrorDetail ==
    (MDone /\ Reached /\ ~Is2xx(m_response) /\ m_response.body.kind = "dict") =>
        /\ RaisedApiError
        /\ mresult.val.response = JsonLoads(m_response.body)
        /\ \A k \in {"error", "message", "detail"} \cap Keys(m_response.body.pairs) :
              \E i \in 1..Len(mresult.val.message) :
                  mresult.val.message[i] = JsonLoads(m_response.body).map[k]

\* C17 as stated: the DatabricksAPIError raised carries a status code
\* exactly when a response was received, carries neither status code nor
\* payload when none was reached, and for a non-2xx response whose body is
\* not JSON its payload is the body text.
C17_StatusIffResponse ==
    (MDone /\ RaisedApiError) =>
        /\ (mresult.val.status_code # NoStatus <=> Reached)
        /\ (~Reached => mresult.val.response = NoPayload)
        /\ ((Reached /\ ~Is2xx(m_response) /\ JsonFails(m_response.body)) =>
               mresult.val.response = Value("text", EmptyMap, m_response.body.text))

\* C17 amended: the DatabricksAPIError raised carries the remote status code
\* exactly when a 4xx or 5xx response was received; it carries neither
\* status code nor payload when no response was reached or when the body of
\* a response that passed the status check could not be decoded; for a 4xx
\* or 5xx response whose body is not JSON its payload is the body text.
C17_StatusIffErrorResponse ==
    (MDone /\ RaisedApiError) =>
        /\ (mresult.val.status_code # NoStatus <=> (Reached /\ Is4xx5xx(m_response)))
        /\ (mresult.val.status_code # NoStatus =>
               mresult.val.status_code = m_response.status_code)
        /\ ((~Reached \/ ~Is4xx5xx(m_response)) => mresult.val.response = NoPayload)
        /\ ((Reached /\ Is4xx5xx(m_response) /\ JsonFails(m_response.body)) =>
               mresult.val.response = Value("text", EmptyMap, m_response.body.text))

C17_Witness ==
    /\ MDone /\ RaisedApiError
    /\ m_response.status_code = 500
    /\ m_response.body.kind = "text"
    /\ mresult.val.status_code = 500
    /\ mresult.val.response.text = "Service Unavailable"

C17_WitnessNoResponse ==
    /\ MDone /\ RaisedApiError
    /\ ~Reached
    /\ mresult.val.status_code = NoStatus

\* C18: a call that receives a 2xx status with a decodable body returns the
\* decoded body: an object has exactly the keys of the wire body, each with
\* the value the body gives it, and an empty body gives the empty mapping.
C18_DecodedBodyReturned ==
    (MDone /\ Reached /\ Is2xx(m_response) /\ m_response.body.kind # "text") =>
        /\ mresult.kind = "return"
        /\ (m_response.body.kind = "empty" => mresult.val = EmptyDict)
        /\ (m_response.body.kind = "list" => mresult.val.type = "list")
        /\ (m_response.body.kind = "dict" =>
              LET pairs == m_response.body.pairs
              IN  /\ mresult.val.type = "dict"
                  /\ DOMAIN mresult.val.map = Keys(pairs)
                  /\ \A i \in 1..Len(pairs) :
                        (\A j \in (i + 1)..Len(pairs) : pairs[j][1] # pairs[i][1])
                            => mresult.val.map[pairs[i][1]] = pairs[i][2])

C18_Witness ==
    /\ MDone /\ Reached
    /\ m_response.status_code = 200
    /\ Len(m_response.body.pairs) = 2
    /\ mresult.kind = "return"
    /\ DOMAIN mresult.val.map = {"error_code", "message"}
    /\ mresult.val.map["message"] = "boom"

C18_WitnessEmpty ==
    /\ MDone /\ Reached
    /\ m_response.status_code = 204
    /\ m_response.body.kind = "empty"
    /\ mresult = Returned(EmptyDict)

C20_OnlyTaxonomyErrors ==
    /\ (MDone /\ mresult.kind = "raise") =>
          mresult.val.type = "DatabricksAPIError"
    /\ (UDone /\ uresult.kind = "raise") =>
          uresult.val.type \in {"DatabricksAPIError", "FileNotFoundError"}
    /\ (SDone /\ sresult.kind = "raise") =>
          sresult.val.type \in {"DatabricksAPIError", "ValueError", "TimeoutError"}

(***************************************************************************)
(* Observations on concurrent operations                                   *)
(***************************************************************************)
LDone(t) == task[t].pc = "done"

\* a request of the coroutine is out and its response has yet to arrive
InFlight(t) == task[t].pc = "wait"

\* C21: while one operation waits for the response to its remote call,
\* every other operation that is ready to take a step can be run by the
\* event loop.
C21_CallsAreSuspensionPoints ==
    \A t \in Tasks : \A u \in Tasks \ {t} :
        (InFlight(t) /\ Ready(u)) => CanRun(u)

\* C22: the log entries of a call do not depend on the bearer token or on
\* the content of a non-empty body: the request entry of every call with a
\* non-empty body is the same entry, holding the placeholder, whatever the
\* token and the body are, and no entry holds the token, the body or its
\* serialization.
C22_LogIndependentOfSecrets ==
    (mpc \in {"send", "check", "parse", "handle", "done"} /\ Truthy(m_data)) =>
        /\ m_log[1] = LogEntry("debug", "**REDACTED**", <<>>)
        /\ \A i \in 1..Len(m_log) :
              LET secrets == {m_token, m_data, JsonDumps(m_data)}
              IN  /\ m_log[i].data \notin secrets
                  /\ \A j \in 1..Len(m_log[i].message) :
                        m_log[i].message[j] \notin secrets

C22_Witness ==
    /\ MDone
    /\ m_token = "dapi-2"
    /\ m_data = "{path,contents}"
    /\ Len(m_log) = 2
    /\ m_log[2].level = "error"

(***************************************************************************)
(* Observations on the tools                                               *)
(***************************************************************************)
TDone == t_pc = "done"

\* the remote side did not reject the call of the tool
RemoteAccepts == t_exc # "DatabricksAPIError"

\* C23: a tool called with its required parameters, the remote side
\* accepting the request, issues the remote call of its API function and
\* returns a non-empty list whose first item is a text item holding the
\* JSON encoding of the remote payload, not an error object.
C23_ToolReturnsRemotePayload ==
    (TDone /\ RemoteAccepts) =>
        /\ Len(t_calls) = 1
        /\ t_calls[1].path = ApiPath(ApiFunction(t_name))
        /\ Len(t_return) >= 1
        /\ t_return[1] = TextItem(JsonText(t_remote))

(***************************************************************************)
(* Observations on the polling loop                                        *)
(***************************************************************************)
\* this step issues a status poll
PollIssued == Len(Polls') = Len(Polls) + 1

\* C24: a status poll is issued only when the most recently observed state
\* is PENDING or RUNNING, after a timeout check that passed and a wait of
\* one poll interval since that check; every state observed before the
\* last one is PENDING or RUNNING, so no poll follows any other state.
C24_PollOnlyWhileActive ==
    /\ [](\A i \in 1..(Len(responses) - 1) : responses[i].state \in ActiveStates)
    /\ [][PollIssued =>
            /\ status \in ActiveStates
            /\ status = LastResponse.state
            /\ ~TimedOut(start_time + elapsed, start_time, timeout_seconds)
            /\ now = start_time + elapsed + poll_interval_seconds]_vars

C24_Witness ==
    /\ SDone
    /\ Len(Polls) = 2
    /\ ObservedStates = <<"PENDING", "RUNNING", "UNKNOWN">>
    /\ sresult.kind = "return"

\* C25: when execute_and_wait returns normally after at least one poll, the
\* payload returned is the last poll response, whatever state ended the
\* polling.
C25_ReturnsLastPollResponse ==
    (SDone /\ sresult.kind = "return" /\ Len(Polls) >= 1) =>
        sresult.val = LastResponse

\* position of a state in the lifecycle PENDING, RUNNING, terminal
Rank(st) == CASE st = "PENDING" -> 1 [] st = "RUNNING" -> 2 [] OTHER -> 3

\* C26: the states adopted along a run are monotonic in the order PENDING,
\* RUNNING, terminal: the adopted state never goes from RUNNING back to
\* PENDING, whatever the remote side reports.
C26_AdoptedStatesMonotonic ==
    [][(status \in ActiveStates /\ status' # status) =>
           Rank(status') >= Rank(status)]_vars

\* the requests (ev = "req") or responses (ev = "resp") of a coroutine on an
\* endpoint, in wire order
WireOf(t, ev, ep) ==
    SelectSeq(wire, LAMBDA w : w.task = t /\ w.ev = ev /\ w.ep = ep)

\* the handle or statement identifier the remote side issued to a coroutine
Granted(t, ep) == {WireOf(t, "resp", ep)[i].id : i \in 1..Len(WireOf(t, "resp", ep))}

Uploads == {t \in Tasks : task[t].kind = "upload"}

\* C27: under any interleaving of concurrent uploads, each upload has at
\* most one add-block call in flight, its add-block calls reach the remote
\* side in source order, and every add-block and close call carries the
\* handle its own create call returned, never another one.
C27_SequentialBlocksOwnHandle ==
    \A t \in Uploads :
        /\ Len(WireOf(t, "req", "add-block")) - Len(WireOf(t, "resp", "add-block")) \in {0, 1}
        /\ \A k \in 1..Len(WireOf(t, "req", "add-block")) :
              WireOf(t, "req", "add-block")[k].n = k - 1
        /\ \A ep \in {"add-block", "close"} :
              \A k \in 1..Len(WireOf(t, "req", ep)) :
                 /\ Granted(t, "create") = {WireOf(t, "req", ep)[k].id}
                 /\ \A u \in Tasks \ {t} :
                       WireOf(t, "req", ep)[k].id \notin Granted(u, "create")

C27_Witness ==
    /\ Uploads = Tasks
    /\ \A t \in Tasks : LDone(t) /\ Len(WireOf(t, "req", "add-block")) = 2
    /\ task["t1"].id = 2
    /\ task["t2"].id = 1
    /\ task["t1"].result.kind = "raise"

Executions == {t \in Tasks : task[t].kind = "sql"}

\* sql.py lines 113-131 for an execution that is alone on the loop: every
\* sleep lasts one poll interval and every call one network latency
RECURSIVE AloneLoop(_, _, _, _)
AloneLoop(c, st, t, n) ==
    IF st \notin ActiveStates THEN Outcome("return", 1, "")
    ELSE IF TimedOut(t, netLatency, c.timeout_seconds)
         THEN Outcome("raise", 0, "TimeoutError")
    ELSE IF StateReported(c.runFor, n + 1) = "SUCCEEDED"
         THEN Outcome("return", n + 1, "")
    ELSE AloneLoop(c, StateReported(c.runFor, n + 1),
                   t + c.poll_interval_seconds + netLatency, n + 1)

\* the outcome of execute_and_wait running alone against the same responses
AloneOutcome(c) == AloneLoop(c, StateReported(c.runFor, 1), netLatency, 1)

\* C28: under any interleaving, each execution polls only the statement
\* identifier its own submission returned, after that response was
\* observed, and ends with the outcome it would have had running alone
\* against the same remote responses.
C28_ExecutionsIndependent ==
    Executions = Tasks =>
        \A t \in Executions :
            /\ \A k \in 1..Len(WireOf(t, "req", "status")) :
                  /\ Granted(t, "execute") = {WireOf(t, "req", "status")[k].id}
                  /\ \A u \in Tasks \ {t} :
                        WireOf(t, "req", "status")[k].id \notin Granted(u, "execute")
            /\ LDone(t) => task[t].result = AloneOutcome(task[t])

(***************************************************************************)
(* Observations on the request that is sent                                *)
(***************************************************************************)
\* the request of the current call has been handed to requests.request
Sent == mpc \in {"check", "parse", "handle", "done"} /\ httpSent = mInvocations

\* the data argument of the request is a json.dumps string
IsSerialized(x) == \E a \in ArgSamples : x = JsonDumps(a)

\* C29 as stated: no request that is sent carries both a body and
\* attachments.
C29_NeverBodyAndFiles ==
    Sent => ~(Truthy(m_request.data) /\ Truthy(m_request.files))

\* C29 amended: no request that is sent carries a serialized JSON body
\* together with attachments; a non-empty data argument is sent serialized
\* when there are no attachments and unserialized, as the form fields of the
\* multipart request, next to the attachments when there are.
C29_NeverSerializedBodyAndFiles ==
    Sent =>
        /\ ~(IsSerialized(m_request.data) /\ Truthy(m_request.files))
        /\ m_request.files = m_files
        /\ (Truthy(m_data) /\ ~Truthy(m_files)) => m_request.data = JsonDumps(m_data)
        /\ (Truthy(m_data) /\ Truthy(m_files)) => m_request.data = m_data
        /\ ~Truthy(m_data) => m_request.data = m_data

C29_Witness ==
    /\ MDone
    /\ Sent
    /\ m_data = "{path}"
    /\ m_files = "{path,contents}"
    /\ m_request.data = "{path}"
    /\ m_request.files = "{path,contents}"

(***************************************************************************)
(* Observations on import_notebook                                         *)
(***************************************************************************)
NDone == n_pc = "done"

\* C30: the content that import_notebook sends is canonical base64
\* (encoding its decoding gives it back); content that passes the
\* round-trip check is sent unchanged, any other content is sent encoded
\* exactly once; and the content sent passes the check itself, so ensuring
\* again changes nothing.
C30_SentContentCanonical ==
    NDone =>
        /\ B64DecodeStr(n_sent).ok
        /\ B64EncodeStr(B64DecodeStr(n_sent).bytes) = n_sent
        /\ IsBase64(n_content) => n_sent = n_content
        /\ ~IsBase64(n_content) =>
              /\ n_sent = B64EncodeStr(Utf8(n_content))
              /\ B64DecodeStr(n_sent).bytes = Utf8(n_content)
        /\ IsBase64(n_sent)

\* "QR==" decodes, but is not what its decoding encodes to: it is encoded
C30_Witness ==
    /\ NDone
    /\ n_content = <<81, 82, 61, 61>>
    /\ n_sent = <<85, 86, 73, 57, 80, 81, 61, 61>>

\* "QQ==" passes the check and is sent as it is
C30_WitnessUnchanged ==
    /\ NDone
    /\ n_content = <<81, 81, 61, 61>>
    /\ n_sent = n_content

====
